---- MODULE Spec2Model ----
(***************************************************************************)
(* GameScene (src/src/game/scenes/GameScene.ts): the client-side scene of  *)
(* a multiplayer arena.  The model keeps the fields of the scene that the  *)
(* reconciliation and combat logic reads and writes: the remote-player     *)
(* registry, the colour indices in use, the damaged-player overlay, the    *)
(* per-attack hit set, the attack hitbox and its timers, the projectiles   *)
(* and the outbound server calls.  Positions, names and sprites are left   *)
(* to the engine: an overlap test is an input of the tick.                 *)
(***************************************************************************)
EXTENDS Integers, Sequences, FiniteSets, TLC

(***************************************************************************)
(* Bounds of the model.                                                    *)
(***************************************************************************)
\* Frames simulated in a behaviour with attacks (each lasts FrameDelta ms).
MaxFrames == 4
\* setGameData is not called again once the handlers are registered this many times.
MaxSubscriptions == 1
\* Time simulated in a behaviour with attacks in frames of different lengths, in units of FrameDelta.
MaxAttackTime == 10
\* Seconds simulated in a behaviour with projectiles.
MaxProjectileSeconds == 3
\* Sprites of one projectile id left outside this.projectiles when a message repeats the id.
MaxOrphans == 1
\* Frames simulated in a behaviour in which the local player dies.
MaxDeathFrames == 10
\* setGameData is not called again, in a behaviour with repeated calls, once the handlers are
\* registered this many times.
MaxRegistrations == 2

(***************************************************************************)
(* Program constants.                                                      *)
(***************************************************************************)
NumColors == 8
HitDamage == 10
DefaultHealth == 100
HitboxDuration == 300
AttackCooldownDelay == 500
ProjectileLifetime == 2000
positionUpdateInterval == 50

(***************************************************************************)
(* Account ids.  An id is a string; CharCodes gives its UTF-16 code units, *)
(* read character by character as hashCode reads them.                     *)
(***************************************************************************)
Me == "me"
RemoteIds == {"p1", "p2"}
Accounts == {Me} \cup RemoteIds
\* myAccount before setGameData has seen an account: the empty string.
NoAccount == ""

\* The characters with the code units 32 to 95 and 97 to 126, in the order of
\* their codes (a string of the model cannot hold the character 96).
CharsFrom32 ==
    " !\"#$%&'()*+,-./0123456789:;<=>?@ABCDEFGHIJKLMNOPQRSTUVWXYZ[\\]^_"
CharsFrom97 == "abcdefghijklmnopqrstuvwxyz{|}~"

CodeUnits == (32..95) \cup (97..126)

\* String.fromCharCode(code) for a code of CodeUnits.
CharOf(code) ==
    IF code < 96 THEN SubSeq(CharsFrom32, code - 31, code - 31)
    ELSE SubSeq(CharsFrom97, code - 96, code - 96)

\* The code unit of each character.
CharCode ==
    [char \in {CharOf(code) : code \in CodeUnits} |->
        CHOOSE code \in CodeUnits : CharOf(code) = char]

\* str.charCodeAt(i - 1): the code unit of the i-th character of str, for the
\* printable ASCII characters the ids are made of.
charCodeAt(str, i) == CharCode[SubSeq(str, i, i)]

CharCodes(str) == [i \in 1..Len(str) |-> charCodeAt(str, i)]

Min(S) == CHOOSE x \in S : \A y \in S : x <= y

Abs(n) == IF n < 0 THEN 0 - n ELSE n

\* JavaScript's % : the remainder has the sign of the dividend.
JsRem(a, n) ==
    LET m == a % n
    IN  IF a >= 0 \/ m = 0 THEN m ELSE m - n

(***************************************************************************)
(* hashCode: hash = ((hash << 5) - hash) + char; hash = hash & hash.       *)
(* Each round is 31*hash + char reduced to a signed 32-bit integer.  The   *)
(* value is kept as two 16-bit halves so that the 32-bit wrap-around is    *)
(* computed without leaving the range of the checker's integers.           *)
(***************************************************************************)
HashStep(h, char) ==
    LET lo  == h.lo * 31 + char
        hi  == h.hi * 31 + (lo \div 65536)
    IN  [hi |-> hi % 65536, lo |-> lo % 65536]

RECURSIVE HashFold(_, _, _)
HashFold(h, codes, i) ==
    IF i > Len(codes) THEN h ELSE HashFold(HashStep(h, codes[i]), codes, i + 1)

\* The signed 32-bit value of the two halves.
ToInt32(h) ==
    IF h.hi >= 32768 THEN (h.hi - 65536) * 65536 + h.lo ELSE h.hi * 65536 + h.lo

hashCode(str) == ToInt32(HashFold([hi |-> 0, lo |-> 0], CharCodes(str), 1))

(***************************************************************************)
(* State.                                                                  *)
(***************************************************************************)
VARIABLES
    assetsLoaded,        \* create() has run: the scene is active, this.player exists
    myAccount,           \* the local account id, "" until setGameData sees one
    serverInitialized,
    server,              \* TRUE when this.server is an object, FALSE when it is null or undefined
    roomId,              \* "" or the room joined
    subscriptions,       \* how many times setupServerSubscriptions registered its handlers
    playerHealth,        \* this.player.health
    otherPlayers,        \* Map<string, Player>: id -> [health, colorIndex]
    usedColorIndices,    \* Set<number>
    damagedPlayers,      \* Map<string, number>: id -> locally tracked health
    hitPlayers,          \* Set<string>: ids hit by the current attack
    attackHitbox,        \* TRUE while this.attackHitbox is a live rectangle, FALSE when null
    attackCooldown,
    timers,              \* pending delayedCall events, in creation order: [kind, elapsed]
    now,                 \* the time of the last frame (also what Date.now() read in it), ms
    dateNow,             \* what Date.now() read when the last frame or the last projectileFired handler
                         \* ran, on the clock of the frame times: handlers run between the frames
    lastPositionUpdate,
    projectiles,         \* Map<string, Sprite>: id -> [ownerId, creationTime]
    meleeHits,           \* handlePlayerHit(id, myAccount, "melee_attack") calls of the current attack, per id
    playerHitSent,       \* playerHit remote calls for melee hits of the current attack, per target id
    overlapFrames,       \* frames of the current attack in which a registered remote id overlapped the live hitbox
    hitFrom,             \* <<h>>: the health of a remote id just before the current attack first hit it
    attackTimes,         \* the frame times at which the last two attacks were spawned
    idleOverlap,         \* the registered remote players, not hit by the attack, that overlapped the place of
                         \* the hitbox in the last frame, when that frame began with the removal of the
                         \* hitbox and spawned no attack
    colorLog,            \* the ids given to getUniqueColorIndex without a release, with the index returned
    obstaclesCreated,
    obstacles,           \* the static group: [border, placed], the border count and the positions created from server data
    localColliders,      \* colliders registered between this.player.sprite and the obstacles
    playerColliders,     \* colliders registered between the sprite of a registered remote player and the obstacles, per id
    orphans,             \* per projectile id, the sprites created under it, not destroyed, that this.projectiles no longer holds
    lastStrike,          \* the ids of the projectiles that hit the local player in the last frame, with the
                         \* damage(10) calls on the local player and the playerHit calls they made
    deaths,              \* per target id, for each handlePlayerHit call of the last frame that called
                         \* handlePlayerDeath or playerDied, the calls it made after damage(10), in order
    lastPush,            \* <<t>>: the frame time of the last updatePlayerPosition call, <<>> before the first
    pushGap,             \* <<d>>: the frame time between the last two updatePlayerPosition calls
    inFlight,            \* <<m>>: the projectileFired message published last, [id, ownerId, pending], with
                         \* the number of handlers registered for it that are still to be invoked
    handled,             \* the handleProjectileFired calls made for the message published last
    ignoredObstacles     \* the obstacle data that created nothing: "early" (before the assets were loaded),
                         \* "late" (a list with other positions, after the obstacles were created)

vars == <<assetsLoaded, myAccount, serverInitialized, server, roomId, subscriptions,
          playerHealth, otherPlayers, usedColorIndices, damagedPlayers,
          hitPlayers, attackHitbox, attackCooldown, timers, now, dateNow,
          lastPositionUpdate, projectiles, meleeHits, playerHitSent,
          overlapFrames, hitFrom, attackTimes, idleOverlap, colorLog, obstaclesCreated, obstacles,
          localColliders, playerColliders, orphans, lastStrike, deaths, lastPush, pushGap,
          ignoredObstacles, inFlight, handled>>

sessionVars == <<assetsLoaded, myAccount, serverInitialized, server, roomId, subscriptions>>
rosterVars  == <<otherPlayers, usedColorIndices, damagedPlayers>>
attackVars  == <<hitPlayers, attackHitbox, attackCooldown, timers, meleeHits,
                 playerHitSent, overlapFrames, hitFrom, attackTimes, idleOverlap>>
clockVars   == <<now, lastPositionUpdate>>
pushVars    == <<lastPush, pushGap>>
shotVars    == <<projectiles, orphans, lastStrike, deaths, dateNow>>
worldVars   == <<obstaclesCreated, obstacles, localColliders, playerColliders, ignoredObstacles>>
netVars     == <<inFlight, handled>>

(***************************************************************************)
(* Player (src/game/entities/Player, not part of the sources at hand):     *)
(* a new player starts at full health, damage lowers it and stops at 0,    *)
(* setHealth stores the value given.                                       *)
(***************************************************************************)
PlayerDamage(health, amount) == IF health - amount < 0 THEN 0 ELSE health - amount

NewPlayer(colorIndex) == [health |-> DefaultHealth, colorIndex |-> colorIndex]

(***************************************************************************)
(* Maps, as functions on their key sets.                                   *)
(***************************************************************************)
MapSet(m, k, v) == [x \in DOMAIN m \cup {k} |-> IF x = k THEN v ELSE m[x]]

MapDelete(m, K) == [x \in DOMAIN m \ K |-> m[x]]

EmptyMap == [x \in {} |-> 0]

(***************************************************************************)
(* getUniqueColorIndex: the first index of 1..8 not in use is marked used  *)
(* and returned; with all eight in use the index is abs(hash % 8) + 1 and  *)
(* the set is left alone.                                                  *)
(***************************************************************************)
FirstFree(used) ==
    {i \in 1..NumColors : i \notin used}

\* As getUniqueColorIndex, without usedColorIndices.add(i).
getColorIndexUnmarked(used, playerId) ==
    IF FirstFree(used) # {}
    THEN [index |-> Min(FirstFree(used)), used |-> used]
    ELSE [index |-> Abs(JsRem(hashCode(playerId), NumColors)) + 1, used |-> used]

getUniqueColorIndex(used, playerId) ==
    IF FirstFree(used) # {}
    THEN [index |-> Min(FirstFree(used)), used |-> used \cup {Min(FirstFree(used))}]
    ELSE [index |-> Abs(JsRem(hashCode(playerId), NumColors)) + 1, used |-> used]

\* The index updatePlayerStates frees when a player leaves: hashCode(id) % 8 + 1.
ReleasedColorIndex(id) == JsRem(hashCode(id), NumColors) + 1

(***************************************************************************)
(* Roster snapshots: a list of player states.  An entry keeps its account, *)
(* whether x and y are both defined, and its health field (<<>> when the   *)
(* field is missing, <<h>> otherwise).                                     *)
(***************************************************************************)
PlayerStates(accounts, healths) ==
    [account : accounts, hasPos : {TRUE}, health : healths]
    \cup [account : accounts, hasPos : {FALSE}, health : {<<>>}]

\* The snapshots that list each account at most once, in any order.
Rosters(accounts, healths) ==
    {playerStates \in UNION {[1..n -> PlayerStates(accounts, healths)] :
                                n \in 0..Cardinality(accounts)} :
        \A i, j \in DOMAIN playerStates :
            i # j => playerStates[i].account # playerStates[j].account}

\* new Set(playerStates.map(p => p.account))
currentPlayerIds(playerStates) == {playerStates[i].account : i \in DOMAIN playerStates}

\* playerState.health || 100 : a missing health and a health of 0 both give 100.
HealthOrDefault(health) ==
    IF health = <<>> THEN DefaultHealth
    ELSE IF health[1] = 0 THEN DefaultHealth ELSE health[1]

\* As ResolveHealth, with the snapshot's value always.
ResolveHealthFromSnapshot(damaged, playerId, health) == HealthOrDefault(health)

\* The health given to an already registered player: the locally tracked
\* value when damagedPlayers has one, the snapshot's otherwise.
ResolveHealth(damaged, playerId, health) ==
    IF playerId \in DOMAIN damaged THEN damaged[playerId] ELSE HealthOrDefault(health)

\* One round of playerStates.forEach: st is [players, used].
ApplyPlayerState(st, playerState, damaged, self) ==
    LET playerId == playerState.account
    IN  IF playerId = self THEN st
        ELSE IF ~playerState.hasPos THEN st
        ELSE IF playerId \in DOMAIN st.players
        THEN [st EXCEPT !.players[playerId].health =
                            ResolveHealth(damaged, playerId, playerState.health)]
        ELSE LET c == getUniqueColorIndex(st.used, playerId)
             IN  [players |-> MapSet(st.players, playerId, NewPlayer(c.index)),
                  used |-> c.used]

RECURSIVE ApplyPlayerStates(_, _, _, _, _)
ApplyPlayerStates(st, playerStates, i, damaged, self) ==
    IF i > Len(playerStates) THEN st
    ELSE ApplyPlayerStates(ApplyPlayerState(st, playerStates[i], damaged, self),
                           playerStates, i + 1, damaged, self)

\* As DepartedIds, with an entry that lacks a position counted as not listed.
DepartedIdsUnplaced(players, playerStates) ==
    {id \in DOMAIN players :
        \A i \in DOMAIN playerStates :
            playerStates[i].account = id => ~playerStates[i].hasPos}

\* The registered players the snapshot no longer lists.
DepartedIds(players, playerStates) ==
    {id \in DOMAIN players : id \notin currentPlayerIds(playerStates)}

\* usedColorIndices after the departure of the players of gone.
ReleaseColors(used, gone) == used \ {ReleasedColorIndex(id) : id \in gone}

\* As ForgetDamage, without damagedPlayers.delete(id).
KeepDamage(damaged, gone) == damaged

\* damagedPlayers after the departure of the players of gone.
ForgetDamage(damaged, gone) == MapDelete(damaged, gone)

(***************************************************************************)
(* updatePlayerStates(playerStates): the entries are applied in order,     *)
(* then the registered players the snapshot does not list are removed,     *)
(* each with its overlay entry and the colour index its hash gives.        *)
(* RosterAfter is what the call leaves in the three maps.                  *)
(***************************************************************************)
RosterAfter(playerStates) ==
    LET st   == ApplyPlayerStates([players |-> otherPlayers, used |-> usedColorIndices],
                                  playerStates, 1, damagedPlayers, myAccount)
        gone == DepartedIds(st.players, playerStates)
    IN  [players |-> MapDelete(st.players, gone),
         used    |-> ReleaseColors(st.used, gone),
         damaged |-> ForgetDamage(damagedPlayers, gone)]

\* The colliders of a player updatePlayerStates creates: one when the obstacles
\* are already created.
NewPlayerColliders(created) == IF created THEN 1 ELSE 0

\* The colliders of players, the players registered after updatePlayerStates:
\* a player that stays keeps its own, a removed player is destroyed with its
\* sprite.
CollidersAfter(players) ==
    [id \in DOMAIN players |->
        IF id \in DOMAIN otherPlayers
        THEN playerColliders[id]
        ELSE NewPlayerColliders(obstaclesCreated)]

UpdatePlayerStates(playerStates) ==
    /\ LET after == RosterAfter(playerStates)
       IN  /\ otherPlayers' = after.players
           /\ usedColorIndices' = after.used
           /\ damagedPlayers' = after.damaged
           /\ playerColliders' = CollidersAfter(after.players)
    /\ UNCHANGED <<sessionVars, attackVars, clockVars, playerHealth, shotVars, colorLog,
                   obstaclesCreated, obstacles, localColliders, ignoredObstacles, pushVars,
                   netVars>>

(***************************************************************************)
(* updatePlayerOnServer: nothing without the local player, before the      *)
(* server is initialized or without a server object, else one              *)
(* updatePlayerPosition call.  The call is recorded with the time of the   *)
(* frame it is made in.                                                    *)
(***************************************************************************)
updatePlayerOnServer(loaded, initialized, hasServer, time) ==
    IF loaded /\ initialized /\ hasServer
    THEN /\ lastPush' = <<time>>
         /\ pushGap' = IF lastPush = <<>> THEN pushGap ELSE <<time - lastPush[1]>>
    ELSE UNCHANGED pushVars

(***************************************************************************)
(* setupServerSubscriptions: nothing without a server object or without a  *)
(* room id, else one more registration of the three handlers.              *)
(***************************************************************************)
setupServerSubscriptions(subs, hasServer, room) ==
    IF ~hasServer \/ room = "" THEN subs ELSE subs + 1

(***************************************************************************)
(* setGameData(data): data.server tells whether the data has a server      *)
(* object, data.account is the account of that object, "" when it has none *)
(* and when there is no object.                                            *)
(***************************************************************************)
\* Game data with a server object.
GameData == [server : {TRUE}, account : {NoAccount, Me}, roomId : {"", "room"}]

\* Game data whose server is null.
ServerlessData == [server : {FALSE}, account : {NoAccount}, roomId : {"", "room"}]

SetGameData(data) ==
    /\ roomId' = data.roomId
    /\ server' = data.server
    /\ IF data.server /\ data.account # NoAccount
       THEN /\ myAccount' = data.account
            /\ serverInitialized' = TRUE
            /\ subscriptions' = IF assetsLoaded
                                THEN setupServerSubscriptions(subscriptions, data.server, data.roomId)
                                ELSE subscriptions
            /\ updatePlayerOnServer(assetsLoaded, TRUE, data.server, now)
       ELSE UNCHANGED <<myAccount, serverInitialized, subscriptions, pushVars>>
    /\ UNCHANGED <<assetsLoaded, rosterVars, attackVars, clockVars, playerHealth,
                   shotVars, colorLog, worldVars, netVars>>

(***************************************************************************)
(* create(): the local player is built, the subscriptions are set up when  *)
(* the server is already initialized, and the assets are marked loaded.    *)
(***************************************************************************)
Create ==
    /\ ~assetsLoaded
    /\ playerHealth' = DefaultHealth
    /\ subscriptions' = IF serverInitialized
                        THEN setupServerSubscriptions(subscriptions, server, roomId)
                        ELSE subscriptions
    /\ updatePlayerOnServer(TRUE, serverInitialized, server, now)
    /\ assetsLoaded' = TRUE
    /\ UNCHANGED <<myAccount, serverInitialized, server, roomId, rosterVars, attackVars,
                   clockVars, shotVars, colorLog, worldVars, netVars>>

(***************************************************************************)
(* The scene's Clock (this.time.delayedCall): a delayed call fires in the  *)
(* first frame in which the frame deltas since it was made add up to its   *)
(* delay, and the Clock runs before update() in each frame.                *)
(***************************************************************************)
\* As TimerDelay, with the two delays exchanged.
TimerDelayExchanged(kind) == IF kind = "hitbox" THEN AttackCooldownDelay ELSE HitboxDuration

TimerDelay(kind) == IF kind = "hitbox" THEN HitboxDuration ELSE AttackCooldownDelay

AdvanceTimers(ts, delta) == [i \in DOMAIN ts |-> [ts[i] EXCEPT !.elapsed = @ + delta]]

Due(t) == t.elapsed >= TimerDelay(t.kind)

PendingTimers(ts) == SelectSeq(ts, LAMBDA t : ~Due(t))

Fired(ts, kind) == \E i \in DOMAIN ts : ts[i].kind = kind /\ Due(ts[i])

(***************************************************************************)
(* handlePlayerHit                                                         *)
(***************************************************************************)
\* The health player.reset() may leave (line 546).  Player is not part of the
\* sources and nothing else tells what reset does to the health: any health.
ResetHealths == {h \in 0..DefaultHealth : h % HitDamage = 0}

\* The local player takes a hit: damage(10), and at health <= 0
\* handlePlayerDeath resets the player.  The healths the hit may leave.
LocalHit(health) ==
    LET h == PlayerDamage(health, HitDamage)
    IN  IF h <= 0 THEN ResetHealths ELSE {h}

\* The registered players of targets take a hit each: damage(10).
RemoteHits(players, targets) ==
    [id \in DOMAIN players |->
        IF id \in targets
        THEN [players[id] EXCEPT !.health = PlayerDamage(@, HitDamage)]
        ELSE players[id]]

\* As RecordDamage, with the health read before damage(10) is applied.
RecordHealthBeforeDamage(damaged, players, targets) ==
    [id \in DOMAIN damaged \cup targets |->
        IF id \in targets THEN otherPlayers[id].health ELSE damaged[id]]

\* damagedPlayers.set(targetId, targetPlayer.health) for each player of targets;
\* players is the registry after the damage.
RecordDamage(damaged, players, targets) ==
    [id \in DOMAIN damaged \cup targets |->
        IF id \in targets THEN players[id].health ELSE damaged[id]]

\* A call of server.remoteFunction: made when the scene has a server object,
\* a TypeError on the null server otherwise.
RemoteCall(fn, hasServer) == IF hasServer THEN <<fn>> ELSE <<"TypeError">>

\* The calls up to the first TypeError, which ends the handler.
RECURSIVE UntilThrown(_)
UntilThrown(calls) ==
    IF calls = <<>> THEN <<>>
    ELSE IF Head(calls) = "TypeError" THEN <<"TypeError">>
    ELSE <<Head(calls)>> \o UntilThrown(Tail(calls))

\* The calls handlePlayerHit(targetId, ..) makes once damage(10) has left the
\* target at health: for the local player at health <= 0 handlePlayerDeath
\* resets the player and calls playerDied (lines 508-509, 540-556); then
\* playerHit is called (lines 527-536).  The remote calls are made once the
\* server is initialized, and end the handler when the server is null.
HitCalls(targetId, self, health, initialized, hasServer) ==
    UntilThrown(
        (IF targetId = self /\ health <= 0
         THEN <<"reset">> \o (IF initialized THEN RemoteCall("playerDied", hasServer) ELSE <<>>)
         ELSE <<>>)
        \o (IF initialized THEN RemoteCall("playerHit", hasServer) ELSE <<>>))

Calls(calls, fn) == {i \in DOMAIN calls : calls[i] = fn}

\* <<calls>> when the hit called handlePlayerDeath for the local player or
\* playerDied, else nothing.
DeathOf(calls) ==
    IF Calls(calls, "reset") \cup Calls(calls, "playerDied") # {} THEN <<calls>> ELSE <<>>

\* The n hits the local player takes in one frame, one after the other: the
\* health they may leave, with the calls of those that DeathOf keeps.
RECURSIVE LocalOutcomes(_, _, _, _, _)
LocalOutcomes(health, n, self, initialized, hasServer) ==
    IF n = 0 THEN {[health |-> health, deaths |-> <<>>]}
    ELSE LET died == DeathOf(HitCalls(self, self, PlayerDamage(health, HitDamage),
                                      initialized, hasServer))
         IN  UNION {{[health |-> rest.health, deaths |-> died \o rest.deaths] :
                         rest \in LocalOutcomes(after, n - 1, self, initialized, hasServer)} :
                    after \in LocalHit(health)}

\* The hit a registered remote player takes in a frame; players is the
\* registry after the damage.
RemoteDeaths(players, id, self, initialized, hasServer) ==
    DeathOf(HitCalls(id, self, players[id].health, initialized, hasServer))

(***************************************************************************)
(* update(time, delta)                                                     *)
(***************************************************************************)
\* As CanHit, without the check of hitPlayers.
CanHitAgain(hit, id) == TRUE

\* A player is tested against the hitbox unless the current attack hit it already.
CanHit(hit, id) == id \notin hit

\* The players the hitbox hits in this frame.
MeleeTargets(players, hit, overlapping) ==
    {id \in DOMAIN players : CanHit(hit, id) /\ id \in overlapping}

\* As FrameTargets, without the check of this.attackHitbox.
FrameTargetsAnyTime(hitbox, players, hit, overlapping) ==
    MeleeTargets(players, hit, overlapping)

\* Line 200: the players are tested only while there is a hitbox.
FrameTargets(hitbox, players, hit, overlapping) ==
    IF hitbox THEN MeleeTargets(players, hit, overlapping) ELSE {}

\* As Expired, with the two times exchanged.
ExpiredReversed(creationTime, readAt) == creationTime - readAt > ProjectileLifetime

\* A projectile has exceeded its lifetime.
Expired(creationTime, readAt) == readAt - creationTime > ProjectileLifetime

\* As ShouldPush, without the check of the interval.
ShouldPushEveryFrame(initialized, time, last) == initialized

\* Line 189: a position update is due.
ShouldPush(initialized, time, last) ==
    initialized /\ time - last > positionUpdateInterval

\* Lines 227-228: the projectiles of other owners that overlap the local player.
StruckProjectiles(projs, self, hitsPlayer) ==
    {id \in DOMAIN projs : projs[id].ownerId # self /\ id \in hitsPlayer}

\* The projectiles the frame destroys and deletes: those that hit the local
\* player, those that overlap an obstacle and those past their lifetime.
RemovedProjectiles(projs, struck, hitsObstacle, time) ==
    struck
    \cup (hitsObstacle \cap DOMAIN projs)
    \cup {id \in DOMAIN projs : Expired(projs[id].creationTime, time)}

NoStrike == [ids |-> {}, damageCalls |-> 0, playerHitCalls |-> 0]

\* What a frame leaves, once it is settled what update gets to do: attack
\* tells whether handleSpacebarAttack runs past its first line and cooldownSet
\* whether it reaches its delayedCall; targets are the players the hitbox
\* hits, struck the projectiles that hit the local player and removed the
\* projectiles destroyed and deleted.
UpdateEffects(time, adv, overlapping, attack, cooldownSet, targets, struck, removed) ==
    LET hitbox1   == IF Fired(adv, "hitbox") THEN FALSE ELSE attackHitbox
        cooldown1 == IF Fired(adv, "cooldown") THEN FALSE ELSE attackCooldown
        hit1      == IF attack THEN {} ELSE hitPlayers
        hitbox2   == attack \/ hitbox1
        remote    == targets \ {myAccount}
        players2  == RemoteHits(otherPlayers, remote)
        localHits == Cardinality(targets \cap {myAccount}) + Cardinality(struck)
        called    == serverInitialized /\ server
        count(c, id) == IF id \in targets THEN c + 1 ELSE c
    IN  /\ now' = time
        /\ dateNow' = time
        /\ IF ShouldPush(serverInitialized, time, lastPositionUpdate)
           THEN /\ updatePlayerOnServer(assetsLoaded, serverInitialized, server, time)
                /\ lastPositionUpdate' = time
           ELSE UNCHANGED <<lastPositionUpdate, pushVars>>
        /\ attackCooldown' = (attack \/ cooldown1)
        /\ attackHitbox' = hitbox2
        /\ timers' = PendingTimers(adv)
                     \o (IF attack THEN <<[kind |-> "hitbox", elapsed |-> 0]>> ELSE <<>>)
                     \o (IF cooldownSet THEN <<[kind |-> "cooldown", elapsed |-> 0]>> ELSE <<>>)
        /\ hitPlayers' = hit1 \cup targets
        /\ otherPlayers' = players2
        /\ damagedPlayers' = RecordDamage(damagedPlayers, players2, remote)
        /\ meleeHits' = [id \in Accounts |->
                            count(IF attack THEN 0 ELSE meleeHits[id], id)]
        /\ playerHitSent' = [id \in Accounts |->
                                LET sent == IF attack THEN 0 ELSE playerHitSent[id]
                                IN  IF called THEN count(sent, id) ELSE sent]
        /\ overlapFrames' = [id \in Accounts |->
                                (IF attack THEN 0 ELSE overlapFrames[id])
                                + (IF hitbox2 /\ id \in (overlapping \cap DOMAIN otherPlayers) \ {myAccount}
                                   THEN 1 ELSE 0)]
        /\ attackTimes' = IF ~attack THEN attackTimes
                          ELSE IF attackTimes = <<>> THEN <<time>>
                          ELSE <<attackTimes[Len(attackTimes)], time>>
        /\ idleOverlap' = IF ~hitbox2 /\ Fired(adv, "hitbox")
                          THEN (overlapping \cap DOMAIN otherPlayers) \ (hit1 \cup {myAccount})
                          ELSE {}
        /\ hitFrom' = [id \in Accounts |->
                          LET before == IF attack THEN <<>> ELSE hitFrom[id]
                          IN  IF id \in remote /\ before = <<>>
                              THEN <<otherPlayers[id].health>> ELSE before]
        /\ projectiles' = MapDelete(projectiles, removed)
        /\ \E local \in LocalOutcomes(playerHealth, localHits, myAccount, serverInitialized, server) :
              /\ playerHealth' = local.health
              /\ deaths' = [id \in Accounts |->
                               IF id = myAccount THEN local.deaths
                               ELSE IF id \in remote
                               THEN RemoteDeaths(players2, id, myAccount, serverInitialized, server)
                               ELSE <<>>]
        /\ lastStrike' = [ids |-> struck,
                          damageCalls |-> Cardinality(struck),
                          playerHitCalls |-> IF called THEN Cardinality(struck) ELSE 0]

\* With the server initialized and this.server null, the first remote call of
\* update throws a TypeError and update ends there: playerAttack in
\* handleSpacebarAttack (line 332, before the delayedCall of the cooldown),
\* else playerDied or playerHit for the first player the hitbox hits (lines
\* 550, 528, after the damage), else for the first projectile that hits the
\* local player (line 229, before the projectile is destroyed).  The model does
\* not keep the order of the two maps: the first player hit is any of the
\* players the frame would hit, the first projectile any of those that hit,
\* and the projectiles update got to before it are any of the others.
Tick(delta, justDown, overlapping, hitsPlayer, hitsObstacle) ==
    /\ assetsLoaded
    /\ now + delta >= dateNow
    /\ LET time      == now + delta
           adv       == AdvanceTimers(timers, delta)
           hitbox1   == IF Fired(adv, "hitbox") THEN FALSE ELSE attackHitbox
           cooldown1 == IF Fired(adv, "cooldown") THEN FALSE ELSE attackCooldown
           \* handleSpacebarAttack runs, and gets past its first line
           attack    == justDown /\ ~cooldown1 /\ serverInitialized
           hit1      == IF attack THEN {} ELSE hitPlayers
           hitbox2   == attack \/ hitbox1
           targets   == FrameTargets(hitbox2, otherPlayers, hit1, overlapping)
           struck    == StruckProjectiles(projectiles, myAccount, hitsPlayer)
           removed   == RemovedProjectiles(projectiles, struck, hitsObstacle, time)
       IN  IF ~serverInitialized \/ server
           THEN UpdateEffects(time, adv, overlapping, attack, attack, targets, struck, removed)
           ELSE IF attack
           THEN UpdateEffects(time, adv, overlapping, TRUE, FALSE, {}, {}, {})
           ELSE IF targets # {}
           THEN \E first \in targets :
                   UpdateEffects(time, adv, overlapping, FALSE, FALSE, {first}, {}, {})
           ELSE IF struck # {}
           THEN \E first \in struck, before \in SUBSET (DOMAIN projectiles \ struck) :
                   UpdateEffects(time, adv, overlapping, FALSE, FALSE, {}, {first},
                                 before \cap RemovedProjectiles(projectiles, {}, hitsObstacle, time))
           ELSE UpdateEffects(time, adv, overlapping, FALSE, FALSE, {}, {}, removed)
    /\ UNCHANGED <<sessionVars, usedColorIndices, colorLog, worldVars, orphans, netVars>>

(***************************************************************************)
(* handleProjectileFired(data), the handler of "projectileFired": a        *)
(* projectile of another player is created and stored under its id.        *)
(***************************************************************************)
ProjectileIds == {"b1", "b2"}

\* Line 434: this.projectiles.set(id, projectile) drops the sprite stored under
\* id, if any, from the map without destroying it.
OrphansAfterSet(projs, orph, id) ==
    IF id \in DOMAIN projs THEN [orph EXCEPT ![id] = @ + 1] ELSE orph

\* readAt is what Date.now() reads when the handler runs (line 406): the time
\* of the last frame or later.
handleProjectileFired(id, ownerId, readAt) ==
    /\ subscriptions > 0
    /\ assetsLoaded
    /\ readAt >= dateNow
    /\ dateNow' = readAt
    /\ IF ownerId = myAccount
       THEN UNCHANGED <<projectiles, orphans>>
       ELSE /\ projectiles' = MapSet(projectiles, id,
                                     [ownerId |-> ownerId, creationTime |-> readAt])
            /\ orphans' = OrphansAfterSet(projectiles, orphans, id)
    /\ UNCHANGED <<lastStrike, deaths>>
    /\ UNCHANGED <<sessionVars, rosterVars, attackVars, clockVars, playerHealth, colorLog,
                   worldVars, pushVars>>

\* One call of the handler, for a message that is not followed further.
HandleProjectileFired(id, ownerId, readAt) ==
    /\ handleProjectileFired(id, ownerId, readAt)
    /\ UNCHANGED netVars

(***************************************************************************)
(* The session server (server.onRoomMessage): a published message is       *)
(* handed once, and asynchronously, to each handler registered for its     *)
(* event at the time, or lost on the way to it.                            *)
(***************************************************************************)
NoPending == IF inFlight = <<>> THEN TRUE ELSE inFlight[1].pending = 0

\* The server publishes a projectileFired message in the room.
Publish(id, ownerId) ==
    /\ NoPending
    /\ inFlight' = <<[id |-> id, ownerId |-> ownerId, pending |-> subscriptions]>>
    /\ handled' = 0
    /\ UNCHANGED <<sessionVars, rosterVars, attackVars, clockVars, playerHealth, colorLog,
                   worldVars, pushVars, shotVars>>

\* One of the registered handlers is invoked with the message.
Deliver ==
    /\ ~NoPending
    /\ handleProjectileFired(inFlight[1].id, inFlight[1].ownerId, dateNow)
    /\ inFlight' = <<[inFlight[1] EXCEPT !.pending = @ - 1]>>
    /\ handled' = handled + 1

\* The message does not reach one of the registered handlers.
Lose ==
    /\ ~NoPending
    /\ inFlight' = <<[inFlight[1] EXCEPT !.pending = @ - 1]>>
    /\ UNCHANGED handled
    /\ UNCHANGED <<sessionVars, rosterVars, attackVars, clockVars, playerHealth, colorLog,
                   worldVars, pushVars, shotVars>>

(***************************************************************************)
(* The callback of the collider createProjectile registers between the     *)
(* sprite and the obstacles (lines 437-446): the sprite is destroyed and   *)
(* the entry of its id is deleted from this.projectiles, whichever sprite  *)
(* the entry holds by then.  stored tells whether the colliding sprite is  *)
(* the one the map holds under id, or one it no longer holds.              *)
(***************************************************************************)
ProjectileCollides(id, stored) ==
    /\ assetsLoaded
    /\ obstaclesCreated
    /\ IF stored
       THEN /\ id \in DOMAIN projectiles
            /\ UNCHANGED orphans
       ELSE /\ orphans[id] > 0
            /\ orphans' = IF id \in DOMAIN projectiles THEN orphans
                          ELSE [orphans EXCEPT ![id] = @ - 1]
    /\ projectiles' = MapDelete(projectiles, {id})
    /\ UNCHANGED <<sessionVars, rosterVars, attackVars, clockVars, playerHealth, colorLog,
                   worldVars, pushVars, lastStrike, deaths, dateNow, netVars>>

(***************************************************************************)
(* createObstaclesFromServer(obstacleData): nothing before the assets are  *)
(* loaded or once the obstacles are created; else the group is cleared,    *)
(* the border is built, an obstacle is created for each entry with x and   *)
(* y, a collider is registered for the local player and for each remote    *)
(* player registered at that time, and obstaclesCreated is set.            *)
(* An entry of obstacleData is <<>> (no position) or <<position>>.         *)
(***************************************************************************)
\* createBorderObstacles: four obstacles for each i of 0, 50 .. 1950.
BorderObstacles == 160

NoObstacles == [border |-> 0, placed |-> <<>>]

ObstaclePositions == {1, 2}

ObstacleLists ==
    UNION {[1..n -> {<<>>} \cup {<<pos>> : pos \in ObstaclePositions}] : n \in 0..2}

\* The obstacles created from obstacleData, in order.
PlacedObstacles(obstacleData) ==
    LET withPos == SelectSeq(obstacleData, LAMBDA data : data # <<>>)
    IN  [i \in DOMAIN withPos |-> withPos[i][1]]

\* As CanCreateObstacles, without the check of assetsLoaded.
CanCreateUnloaded(loaded, created) == ~created

\* Line 253: the guard of createObstaclesFromServer.
CanCreateObstacles(loaded, created) == loaded /\ ~created

\* As ObstaclesCreatedAfter, without this.obstaclesCreated = true.
ObstaclesCreatedUnset(created) == created

\* Line 281.
ObstaclesCreatedAfter(created) == TRUE

\* As BootstrapColliders, without the colliders of the remote players.
BootstrapCollidersLocalOnly(colliders, players) == colliders

\* Lines 277-279: one more collider for each registered remote player.
BootstrapColliders(colliders, players) ==
    [id \in DOMAIN players |-> colliders[id] + 1]

createObstaclesFromServer(obstacleData) ==
    IF CanCreateObstacles(assetsLoaded, obstaclesCreated)
    THEN /\ obstacles' = [border |-> BorderObstacles, placed |-> PlacedObstacles(obstacleData)]
         /\ localColliders' = localColliders + 1
         /\ playerColliders' = BootstrapColliders(playerColliders, otherPlayers)
         /\ obstaclesCreated' = ObstaclesCreatedAfter(obstaclesCreated)
    ELSE UNCHANGED <<obstaclesCreated, obstacles, localColliders, playerColliders>>

\* The record of the obstacle data that creates nothing.
IgnoredAfter(obstacleData) ==
    ignoredObstacles \cup
        (IF ~assetsLoaded THEN {"early"}
         ELSE IF obstaclesCreated /\ PlacedObstacles(obstacleData) # obstacles.placed
              THEN {"late"} ELSE {})

\* A room state: obstacles is <<>> when the state has none, <<list>> otherwise.
RoomStates == [obstacles : {<<>>} \cup {<<list>> : list \in ObstacleLists}]

\* updateRoomState(roomState), lines 585-588.
UpdateRoomState(roomState) ==
    /\ IF ~obstaclesCreated /\ roomState.obstacles # <<>>
       THEN createObstaclesFromServer(roomState.obstacles[1])
       ELSE UNCHANGED <<obstaclesCreated, obstacles, localColliders, playerColliders>>
    /\ ignoredObstacles' = IF roomState.obstacles # <<>>
                           THEN IgnoredAfter(roomState.obstacles[1]) ELSE ignoredObstacles
    /\ UNCHANGED <<sessionVars, rosterVars, attackVars, clockVars, playerHealth,
                   shotVars, colorLog, pushVars, netVars>>

\* The handler given to subscribeRoomState, lines 176-180, called with a state.
RoomStateHandler(state) ==
    /\ subscriptions > 0
    /\ assetsLoaded
    /\ IF state.obstacles # <<>> /\ ~obstaclesCreated
       THEN createObstaclesFromServer(state.obstacles[1])
       ELSE UNCHANGED <<obstaclesCreated, obstacles, localColliders, playerColliders>>
    /\ ignoredObstacles' = IF state.obstacles # <<>>
                           THEN IgnoredAfter(state.obstacles[1]) ELSE ignoredObstacles
    /\ UNCHANGED <<sessionVars, rosterVars, attackVars, clockVars, playerHealth,
                   shotVars, colorLog, pushVars, netVars>>

(***************************************************************************)
(* The scene after construction, and its behaviours.                       *)
(***************************************************************************)
Init ==
    /\ assetsLoaded = FALSE
    /\ myAccount = NoAccount
    /\ serverInitialized = FALSE
    /\ server = FALSE
    /\ roomId = ""
    /\ subscriptions = 0
    /\ playerHealth = DefaultHealth
    /\ otherPlayers = EmptyMap
    /\ usedColorIndices = {}
    /\ damagedPlayers = EmptyMap
    /\ hitPlayers = {}
    /\ attackHitbox = FALSE
    /\ attackCooldown = FALSE
    /\ timers = <<>>
    /\ now = 0
    /\ lastPositionUpdate = 0
    /\ projectiles = EmptyMap
    /\ meleeHits = [id \in Accounts |-> 0]
    /\ playerHitSent = [id \in Accounts |-> 0]
    /\ overlapFrames = [id \in Accounts |-> 0]
    /\ hitFrom = [id \in Accounts |-> <<>>]
    /\ attackTimes = <<>>
    /\ idleOverlap = {}
    /\ colorLog = EmptyMap
    /\ obstaclesCreated = FALSE
    /\ obstacles = NoObstacles
    /\ localColliders = 0
    /\ playerColliders = EmptyMap
    /\ ignoredObstacles = {}
    /\ orphans = [id \in ProjectileIds |-> 0]
    /\ lastStrike = NoStrike
    /\ dateNow = 0
    /\ deaths = [id \in Accounts |-> <<>>]
    /\ lastPush = <<>>
    /\ pushGap = <<>>
    /\ inFlight = <<>>
    /\ handled = 0

\* setGameData, called while the handlers are registered fewer than
\* MaxSubscriptions times.
Join(dataSet) ==
    /\ subscriptions < MaxSubscriptions
    /\ \E data \in dataSet : SetGameData(data)

\* The room is known whenever the game data is set, and the data has a server
\* object.
RoomGameData == [server : {TRUE}, account : {NoAccount, Me}, roomId : {"room"}]

(***************************************************************************)
(* Spec: an attack and roster snapshots of one remote player and of the    *)
(* local account, in frames of 100 ms, so that a hitbox (300 ms) is alive  *)
(* in three frames and removed in the fourth.  SpecAttack has the longer   *)
(* behaviours, with several attacks.                                       *)
(***************************************************************************)
FrameDelta == 100

Frame ==
    /\ now + FrameDelta <= MaxFrames * FrameDelta
    /\ \E justDown \in BOOLEAN, overlapping \in SUBSET DOMAIN otherPlayers :
          Tick(FrameDelta, justDown, overlapping, {}, {})

DuelHealths == {<<>>, <<50>>}

DuelSnapshots == Rosters({Me, "p1"}, DuelHealths)

Next ==
    \/ Join(RoomGameData)
    \/ Create
    \/ \E playerStates \in DuelSnapshots : UpdatePlayerStates(playerStates)
    \/ Frame

Spec == Init /\ [][Next]_vars

(***************************************************************************)
(* SpecRoster: roster snapshots of two remote players and of the local     *)
(* account, without frames.  No entry carries a health: the registry keys  *)
(* and the colour indices do not depend on it.                             *)
(***************************************************************************)
RosterSnapshots == Rosters(Accounts, {<<>>})

NextRoster ==
    \/ Join(RoomGameData)
    \/ Create
    \/ \E playerStates \in RosterSnapshots : UpdatePlayerStates(playerStates)

SpecRoster == Init /\ [][NextRoster]_vars

(***************************************************************************)
(* SpecProjectile: projectiles of the remote players, in frames of half a  *)
(* second and of a second, so that a frame falls on the 2000 ms of a       *)
(* projectile's lifetime and later ones beyond it.                         *)
(***************************************************************************)
ProjectileDeltas == {500, 1000}

\* A projectile overlaps an obstacle only once there are obstacles.
ProjectileFrame ==
    \E delta \in ProjectileDeltas :
        /\ now + delta <= MaxProjectileSeconds * 1000
        /\ \E hitsPlayer \in SUBSET DOMAIN projectiles,
              hitsObstacle \in (IF obstaclesCreated THEN SUBSET DOMAIN projectiles ELSE {{}}) :
                Tick(delta, FALSE, {}, hitsPlayer, hitsObstacle)

\* A projectileFired message with an id that no stored projectile has, handled
\* when Date.now() reads readAt.
FireAt(id, ownerId, readAt) ==
    /\ id \notin DOMAIN projectiles
    /\ HandleProjectileFired(id, ownerId, readAt)

\* The message is handled with the clock at the time of the last reading.
Fire(id, ownerId) == FireAt(id, ownerId, dateNow)

\* The handler runs at the time of the last frame or HandlerDelay later.
HandlerDelay == 400

ReadTimes == {now, now + HandlerDelay}

\* The owners of the projectiles: the local account and a remote player.
ShooterIds == {Me, "p1"}

\* The room state whose obstacle list is empty: the border alone is built.
BorderRoomState == [obstacles |-> <<<<>>>>]

NextProjectile ==
    \/ Join(GameData)
    \/ Create
    \/ UpdateRoomState(BorderRoomState)
    \/ \E id \in ProjectileIds, ownerId \in ShooterIds, readAt \in ReadTimes :
          FireAt(id, ownerId, readAt)
    \/ \E id \in ProjectileIds : ProjectileCollides(id, TRUE)
    \/ ProjectileFrame

SpecProjectile == Init /\ [][NextProjectile]_vars

(***************************************************************************)
(* SpecRepeat: as SpecProjectile in frames of a second, with               *)
(* projectileFired messages that repeat the id of a stored projectile, and *)
(* with the collider callbacks of the sprites the map no longer holds.     *)
(***************************************************************************)
\* A projectileFired message; a message whose id is stored already comes while
\* fewer than MaxOrphans sprites of that id are left outside the map.
FireAgain(id, ownerId) ==
    /\ id \in DOMAIN projectiles => orphans[id] < MaxOrphans
    /\ HandleProjectileFired(id, ownerId, dateNow)

RepeatFrame ==
    /\ now + 1000 <= MaxProjectileSeconds * 1000
    /\ \E hitsPlayer \in SUBSET DOMAIN projectiles,
          hitsObstacle \in (IF obstaclesCreated THEN SUBSET DOMAIN projectiles ELSE {{}}) :
            Tick(1000, FALSE, {}, hitsPlayer, hitsObstacle)

NextRepeat ==
    \/ Join(RoomGameData)
    \/ Create
    \/ UpdateRoomState(BorderRoomState)
    \/ \E id \in ProjectileIds, ownerId \in RemoteIds : FireAgain(id, ownerId)
    \/ \E id \in ProjectileIds, stored \in BOOLEAN : ProjectileCollides(id, stored)
    \/ RepeatFrame

SpecRepeat == Init /\ [][NextRepeat]_vars

(***************************************************************************)
(* SpecColor: getUniqueColorIndex applied to distinct ids, in any order,   *)
(* with no release in between, starting from the empty set.                *)
(***************************************************************************)
ColorIds == {"p1", "p2", "p3", "p4", "p5", "p6", "p7", "q1", "zzzzzy"}

AllocateColor(playerId) ==
    /\ playerId \notin DOMAIN colorLog
    /\ LET c == getUniqueColorIndex(usedColorIndices, playerId)
       IN  /\ usedColorIndices' = c.used
           /\ colorLog' = MapSet(colorLog, playerId, c.index)
    /\ UNCHANGED <<sessionVars, otherPlayers, damagedPlayers, attackVars, clockVars,
                   playerHealth, shotVars, worldVars, pushVars, netVars>>

NextColor == \E playerId \in ColorIds : AllocateColor(playerId)

SpecColor == Init /\ [][NextColor]_vars

(***************************************************************************)
(* SpecWorld: obstacle data from updateRoomState and from the room-state   *)
(* subscription, and roster snapshots of the two remote players, in any    *)
(* order with setGameData and create.                                      *)
(***************************************************************************)
WorldSnapshots == Rosters(RemoteIds, {<<>>})

NextWorld ==
    \/ Join(RoomGameData)
    \/ Create
    \/ \E playerStates \in WorldSnapshots : UpdatePlayerStates(playerStates)
    \/ \E roomState \in RoomStates : UpdateRoomState(roomState)
    \/ \E state \in RoomStates : RoomStateHandler(state)

SpecWorld == Init /\ [][NextWorld]_vars

(***************************************************************************)
(* SpecPush: frames of 20 and 40 ms, shorter than the push interval, with  *)
(* setGameData (with or without a server object, an account and a room)    *)
(* and create in any order.                                                *)
(***************************************************************************)
PushDeltas == {20, 40}

PushFrame ==
    \E delta \in PushDeltas :
        /\ now + delta <= MaxFrames * FrameDelta
        /\ Tick(delta, FALSE, {}, {}, {})

NextPush ==
    \/ Join(GameData \cup ServerlessData)
    \/ Create
    \/ PushFrame

SpecPush == Init /\ [][NextPush]_vars

(***************************************************************************)
(* SpecHealth: roster snapshots of the two remote players whose entries    *)
(* carry no health, the health 0 or the health 50.                         *)
(***************************************************************************)
SnapshotHealths == {<<>>, <<0>>, <<50>>}

HealthSnapshots == Rosters(RemoteIds, SnapshotHealths)

NextHealth ==
    \/ Join(RoomGameData)
    \/ Create
    \/ \E playerStates \in HealthSnapshots : UpdatePlayerStates(playerStates)

SpecHealth == Init /\ [][NextHealth]_vars

(***************************************************************************)
(* SpecAttack: attacks in frames of 100, 250 and 500 ms, so that the two   *)
(* timers of an attack fire in different frames or in the same one, with   *)
(* one remote player that joins, leaves and overlaps at any time.          *)
(***************************************************************************)
AttackDeltas == {100, 250, 500}

AttackFrame ==
    \E delta \in AttackDeltas :
        /\ now + delta <= MaxAttackTime * FrameDelta
        /\ \E justDown \in BOOLEAN, overlapping \in SUBSET DOMAIN otherPlayers :
              Tick(delta, justDown, overlapping, {}, {})

AttackSnapshots == Rosters({"p1"}, {<<>>})

NextAttack ==
    \/ Join(RoomGameData)
    \/ Create
    \/ \E playerStates \in AttackSnapshots : UpdatePlayerStates(playerStates)
    \/ AttackFrame

SpecAttack == Init /\ [][NextAttack]_vars

(***************************************************************************)
(* SpecDeath: the local player under the projectiles of a remote player,   *)
(* in frames of 100 ms, in a session whose setGameData may be called again *)
(* with a null server once the server is initialized.  Every projectile in *)
(* flight reaches the local player in the next frame: ten hits bring the   *)
(* health of the local player from 100 to 0.                               *)
(***************************************************************************)
DeathDelta == 100

DeathFrame ==
    /\ now + DeathDelta <= MaxDeathFrames * DeathDelta
    /\ Tick(DeathDelta, FALSE, {}, DOMAIN projectiles, {})

\* setGameData({server: null, ..}) on a scene whose server is initialized: line
\* 45 stores the null server, serverInitialized stays set.
LoseServer ==
    /\ serverInitialized
    /\ server
    /\ \E data \in ServerlessData : SetGameData(data)

NextDeath ==
    \/ Join(RoomGameData)
    \/ Create
    \/ LoseServer
    \/ \E id \in ProjectileIds : Fire(id, "p1")
    \/ DeathFrame

SpecDeath == Init /\ [][NextDeath]_vars

(***************************************************************************)
(* SpecSession: setGameData called again after the handlers are            *)
(* registered, and projectileFired messages on their way from the server   *)
(* to the registered handlers.                                             *)
(***************************************************************************)
\* setGameData, called while the handlers are registered fewer than
\* MaxRegistrations times.
Rejoin(dataSet) ==
    /\ subscriptions < MaxRegistrations
    /\ \E data \in dataSet : SetGameData(data)

\* The server gives the projectile of a message an id that no stored
\* projectile has.
PublishFresh(id, ownerId) ==
    /\ id \notin DOMAIN projectiles
    /\ Publish(id, ownerId)

NextSession ==
    \/ Rejoin(GameData \cup ServerlessData)
    \/ Create
    \/ \E id \in ProjectileIds, ownerId \in Accounts : PublishFresh(id, ownerId)
    \/ Deliver
    \/ Lose

SpecSession == Init /\ [][NextSession]_vars

(***************************************************************************)
(* Properties.                                                             *)
(***************************************************************************)
\* The entry of playerStates for id has both x and y.
Placed(playerStates, id) ==
    \E i \in DOMAIN playerStates : playerStates[i].account = id /\ playerStates[i].hasPos

\* C1, as stated: after updatePlayerStates(S) the keys of otherPlayers are the
\* account ids of S without the local id, whatever S and the registry were.
C1_KeysAreSnapshotIds ==
    assetsLoaded =>
        \A S \in RosterSnapshots :
            DOMAIN RosterAfter(S).players = currentPlayerIds(S) \ {myAccount}

\* C1, amended: after updatePlayerStates(S) the keys of otherPlayers are the ids
\* S lists that were registered before the call, or that are not the local id
\* and have an entry with both x and y.
C1_KeysAfterSnapshot ==
    assetsLoaded =>
        \A S \in RosterSnapshots :
            DOMAIN RosterAfter(S).players =
                {id \in currentPlayerIds(S) :
                    id \in DOMAIN otherPlayers \/ (id # myAccount /\ Placed(S, id))}

\* A snapshot has registered p1 and left the (already registered) local id alone.
C1_Witness ==
    /\ assetsLoaded
    /\ myAccount = Me
    /\ DOMAIN otherPlayers = {Me, "p1"}

\* C2: in every reachable state the local account id is not a key of otherPlayers.
C2_LocalIdNotRemote == myAccount \notin DOMAIN otherPlayers

\* C3: within one attack handlePlayerHit is called at most once for an id, and
\* the hit set holds exactly the ids the current attack has hit, so that a new
\* attack starts with none.
C3_OneHitPerAttack ==
    \A id \in Accounts :
        /\ meleeHits[id] <= 1
        /\ (id \in hitPlayers) <=> (meleeHits[id] = 1)

\* p1, hit by an earlier attack (its health was 90), has been hit by the current one.
C3_Witness ==
    /\ meleeHits["p1"] = 1
    /\ hitFrom["p1"] = <<DefaultHealth - HitDamage>>

C5_OverlayKept ==
    \A id \in DOMAIN damagedPlayers :
        /\ id \in DOMAIN otherPlayers
        /\ otherPlayers[id].health = damagedPlayers[id]
        /\ \A S \in DuelSnapshots :
              id \in currentPlayerIds(S) =>
                  /\ id \in DOMAIN RosterAfter(S).damaged
                  /\ RosterAfter(S).damaged[id] = damagedPlayers[id]
                  /\ id \in DOMAIN RosterAfter(S).players
                  /\ RosterAfter(S).players[id].health = damagedPlayers[id]

C5_OverlayChangedByHit ==
    \A id \in DOMAIN damagedPlayers \cap DOMAIN damagedPlayers' :
        damagedPlayers'[id] # damagedPlayers[id] =>
            /\ now' > now
            /\ id \in hitPlayers'
            /\ damagedPlayers'[id] = otherPlayers'[id].health

C5_StickyOverlay == [](C5_OverlayKept) /\ [][C5_OverlayChangedByHit]_vars

\* p1 has an overlay entry below the health of every snapshot, after its attack is over.
C5_Witness ==
    /\ "p1" \in DOMAIN damagedPlayers
    /\ damagedPlayers["p1"] = 40
    /\ ~attackHitbox

\* C6: when updatePlayerStates removes a registered player, the colour index
\* the player holds is no longer in use after the call, and the index of a
\* player that stays registered is still in use if it was.
C6_ReleaseAssignedIndex ==
    assetsLoaded =>
        \A S \in RosterSnapshots :
            \A id \in DOMAIN otherPlayers \ {myAccount} :
                IF id \in DOMAIN RosterAfter(S).players
                THEN otherPlayers[id].colorIndex \in usedColorIndices
                        => otherPlayers[id].colorIndex \in RosterAfter(S).used
                ELSE otherPlayers[id].colorIndex \notin RosterAfter(S).used

\* The snapshot S registers id again from an entry with a position and the
\* health v: id, hit by the current attack (which gave it an overlay entry), has
\* left the registry since.
Reintroduces(S, id, v) ==
    /\ id \in hitPlayers
    /\ id \notin DOMAIN otherPlayers
    /\ id # myAccount
    /\ \E i \in DOMAIN S : S[i].account = id /\ S[i].hasPos /\ S[i].health = <<v>>

\* C7, as stated: after the snapshot that reintroduces a player with health v
\* the overlay has no entry for it and its health is v.
C7_ReintroducedWithSnapshotHealth ==
    assetsLoaded =>
        \A S \in DuelSnapshots, id \in RemoteIds, v \in {h[1] : h \in DuelHealths \ {<<>>}} :
            Reintroduces(S, id, v) =>
                /\ id \notin DOMAIN RosterAfter(S).damaged
                /\ RosterAfter(S).players[id].health = v

\* C7, amended: after the snapshot that reintroduces a player with health v the
\* overlay has no entry for it and its health is that of a newly built player,
\* 100, not v.
C7_ReintroducedWithDefaultHealth ==
    assetsLoaded =>
        \A S \in DuelSnapshots, id \in RemoteIds, v \in {h[1] : h \in DuelHealths \ {<<>>}} :
            Reintroduces(S, id, v) =>
                /\ id \notin DOMAIN RosterAfter(S).damaged
                /\ RosterAfter(S).players[id].health = DefaultHealth

\* p1 was hit by the current attack, left the roster (its overlay entry went
\* with it) and is registered again.
C7_Witness ==
    /\ "p1" \in hitPlayers
    /\ "p1" \in DOMAIN otherPlayers
    /\ "p1" \notin DOMAIN damagedPlayers
    /\ myAccount = Me

\* C8: up to 8 distinct ids given to getUniqueColorIndex from the empty set,
\* with no release, get pairwise distinct indices in 1..8.
C8_DistinctColors ==
    Cardinality(DOMAIN colorLog) <= NumColors =>
        /\ \A id \in DOMAIN colorLog : colorLog[id] \in 1..NumColors
        /\ \A a, b \in DOMAIN colorLog : a # b => colorLog[a] # colorLog[b]

\* Eight ids hold an index.
C8_Witness == Cardinality(DOMAIN colorLog) = NumColors

\* C9: the registered players (fewer than 8) hold pairwise distinct colour indices.
C9_RegisteredColorsDistinct ==
    Cardinality(DOMAIN otherPlayers) < NumColors =>
        \A a, b \in DOMAIN otherPlayers \ {myAccount} :
            a # b => otherPlayers[a].colorIndex # otherPlayers[b].colorIndex

C11_CreatedOnceStep ==
    /\ obstacles # NoObstacles => obstacles' = obstacles
    /\ obstacles' # NoObstacles => obstaclesCreated'
    /\ obstaclesCreated => obstaclesCreated'

C11_CreatedOnce == [][C11_CreatedOnceStep]_vars

\* The obstacles were created from a list of one position, and a list of other
\* positions came afterwards.
C11_Witness ==
    /\ obstaclesCreated
    /\ obstacles = [border |-> BorderObstacles, placed |-> <<1>>]
    /\ "late" \in ignoredObstacles

\* C12, as stated: any two consecutive updatePlayerPosition calls, those of
\* setGameData and create included, are at least 50 ms of frame time apart.
C12_PushesSpaced == pushGap # <<>> => pushGap[1] >= positionUpdateInterval

\* C12, amended: a call made by update comes more than 50 ms of frame time
\* after the previous call made by update (or after time 0); the calls made by
\* setGameData and create are made at once and leave the interval as it is.
\* lastPositionUpdate never decreases and is the frame time of every call
\* update makes, so it is no earlier than the last call made by update.
C12_UpdatePushStep ==
    /\ lastPositionUpdate' >= lastPositionUpdate
    /\ (now' > now /\ lastPush' # lastPush) =>
           /\ lastPush' = <<now'>>
           /\ now' - lastPositionUpdate > positionUpdateInterval
           /\ lastPositionUpdate' = now'
    /\ (now' = now /\ lastPush' # lastPush) =>
           /\ lastPush' = <<now>>
           /\ lastPositionUpdate' = lastPositionUpdate

C12_UpdatePushesSpaced == [][C12_UpdatePushStep]_vars

\* update has made a call less than 50 ms after a call of setGameData or create.
C12_Witness ==
    /\ pushGap # <<>>
    /\ pushGap[1] < positionUpdateInterval
    /\ lastPush = <<lastPositionUpdate>>
    /\ lastPositionUpdate > 0

\* C13: a registered remote player without an overlay entry has, after a
\* snapshot that lists it (with a position), the health of its entry when the
\* entry carries one, 0 included, and 100 when the entry carries none.
C13_SnapshotHealthApplied ==
    assetsLoaded =>
        \A S \in HealthSnapshots, id \in DOMAIN otherPlayers \ DOMAIN damagedPlayers :
            \A i \in DOMAIN S :
                (S[i].account = id /\ S[i].hasPos /\ id # myAccount) =>
                    RosterAfter(S).players[id].health =
                        IF S[i].health = <<>> THEN DefaultHealth ELSE S[i].health[1]

\* C14: obstacle data that comes before the assets are loaded creates nothing
\* and is not kept: until create() has run, and after it until obstacle data
\* comes again, obstaclesCreated is false and there is no obstacle and no
\* collider; the obstacles are created only by a step of updateRoomState or of
\* the room-state handler taken with the assets loaded, from the list of that
\* step.
C14_NothingBeforeLoad ==
    (~assetsLoaded \/ ~obstaclesCreated) =>
        /\ ~obstaclesCreated
        /\ obstacles = NoObstacles
        /\ localColliders = 0
        /\ \A id \in DOMAIN playerColliders : playerColliders[id] = 0

C14_CreatedByLaterCallStep ==
    (~obstaclesCreated /\ (obstaclesCreated' \/ obstacles' # obstacles)) =>
        /\ assetsLoaded
        /\ UNCHANGED <<sessionVars, rosterVars, attackVars, clockVars, pushVars>>
        /\ \E list \in ObstacleLists :
              obstacles' = [border |-> BorderObstacles, placed |-> PlacedObstacles(list)]

C14_EarlyDataDropped == [](C14_NothingBeforeLoad) /\ [][C14_CreatedByLaterCallStep]_vars

\* Obstacle data came before create(); since then the scene has subscribed and
\* registered a remote player, and the obstacles are still not created.
C14_Witness ==
    /\ "early" \in ignoredObstacles
    /\ assetsLoaded
    /\ subscriptions > 0
    /\ DOMAIN otherPlayers # {}
    /\ ~obstaclesCreated

\* C15: every projectile sprite that is not destroyed is held by
\* this.projectiles, where the checks of update reach it, also when two
\* projectileFired messages carry the same id.
C15_NoSpriteOutsideMap == \A id \in ProjectileIds : orphans[id] = 0

\* C16: a projectile of another owner that overlaps the local player in a frame
\* is deleted from this.projectiles in that frame and makes one playerHit call;
\* a projectile that hits was stored and is not owned by the local account, and
\* no stored projectile is.  The hits of a frame that do not bring the local
\* player to 0 lower its health by 10 for each projectile that hit.
C16_OneCallPerStrike ==
    /\ lastStrike.playerHitCalls = Cardinality(lastStrike.ids)
    /\ \A id \in DOMAIN projectiles : projectiles[id].ownerId # myAccount

C16_StrikeStep ==
    now' > now =>
        /\ lastStrike'.ids \subseteq DOMAIN projectiles
        /\ \A id \in lastStrike'.ids : projectiles[id].ownerId # myAccount
        /\ lastStrike'.ids \cap DOMAIN projectiles' = {}
        /\ (hitPlayers' = hitPlayers /\ playerHealth > Cardinality(lastStrike'.ids) * HitDamage)
               => playerHealth' = playerHealth - Cardinality(lastStrike'.ids) * HitDamage

C16_OneHitPerProjectile == [](C16_OneCallPerStrike) /\ [][C16_StrikeStep]_vars

\* C17: two successive attacks are spawned at least 500 ms of frame time apart;
\* when an attack is spawned no timer of an earlier attack is pending, so the
\* only pending removal timer is that of the live hitbox, and a hitbox is
\* removed no sooner than 300 ms after its attack.
C17_AttackTimers ==
    /\ Len(attackTimes) = 2 => attackTimes[2] - attackTimes[1] >= AttackCooldownDelay
    /\ Cardinality({i \in DOMAIN timers : timers[i].kind = "hitbox"}) <= 1
    /\ attackHitbox =>
           /\ attackTimes # <<>>
           /\ \E i \in DOMAIN timers :
                  /\ timers[i].kind = "hitbox"
                  /\ timers[i].elapsed = now - attackTimes[Len(attackTimes)]

C17_AttackStep ==
    /\ attackTimes' # attackTimes =>
           /\ attackHitbox'
           /\ timers' = <<[kind |-> "hitbox", elapsed |-> 0],
                          [kind |-> "cooldown", elapsed |-> 0]>>
    /\ (attackHitbox /\ ~attackHitbox') =>
           now' - attackTimes[Len(attackTimes)] >= HitboxDuration

C17_AttacksSpaced == [](C17_AttackTimers) /\ [][C17_AttackStep]_vars

\* A second attack has been spawned exactly 500 ms after the first; its hitbox is live.
C17_Witness ==
    /\ Len(attackTimes) = 2
    /\ attackTimes[2] - attackTimes[1] = AttackCooldownDelay
    /\ attackHitbox

\* C18: a frame that has no live hitbox (its removal timer has fired and no new
\* attack is spawned) hits no player: no health, overlay entry or hit set
\* changes and no melee playerHit is sent, whoever overlaps the place of the
\* former hitbox.
C18_NoHitStep ==
    (now' > now /\ ~attackHitbox') =>
        /\ otherPlayers' = otherPlayers
        /\ damagedPlayers' = damagedPlayers
        /\ hitPlayers' = hitPlayers
        /\ meleeHits' = meleeHits
        /\ playerHitSent' = playerHitSent

C18_NoHitWithoutHitbox == [][C18_NoHitStep]_vars

\* After an attack that did not hit it, p1 overlapped the place of the hitbox
\* in the frame in which the removal timer fired, and is still at full health.
C18_Witness ==
    /\ "p1" \in idleOverlap
    /\ ~attackHitbox
    /\ attackCooldown
    /\ "p1" \notin hitPlayers
    /\ otherPlayers["p1"].health = DefaultHealth

\* C19: once the obstacles are created, every registered remote player has
\* exactly one collider with them, whether it was registered before the
\* obstacles were created or after.
C19_OneColliderEach ==
    /\ DOMAIN playerColliders = DOMAIN otherPlayers
    /\ obstaclesCreated => \A id \in DOMAIN otherPlayers : playerColliders[id] = 1

\* The obstacles are created and both remote players are registered, p2 (which
\* holds the first colour index) before p1.
C19_Witness ==
    /\ obstaclesCreated
    /\ DOMAIN otherPlayers = RemoteIds
    /\ otherPlayers["p2"].colorIndex = 1
    /\ localColliders = 1

\* C20: every id with an overlay entry is a registered player, and the entry is
\* the health the last hit left it with: a frame that hits a player stores the
\* player's health after the hit, and no other step changes the entry of a
\* player that keeps one.
C20_OverlayIsHealth ==
    \A id \in DOMAIN damagedPlayers :
        /\ id \in DOMAIN otherPlayers
        /\ damagedPlayers[id] = otherPlayers[id].health

C20_OverlayStep ==
    \A id \in DOMAIN damagedPlayers' :
        IF now' > now /\ id \in hitPlayers' /\ (id \notin hitPlayers \/ attackTimes' # attackTimes)
        THEN /\ damagedPlayers'[id] = otherPlayers'[id].health
             /\ otherPlayers'[id].health <= otherPlayers[id].health
        ELSE /\ id \in DOMAIN damagedPlayers
             /\ damagedPlayers'[id] = damagedPlayers[id]

C20_OverlayOfRegistered == [](C20_OverlayIsHealth) /\ [][C20_OverlayStep]_vars

\* p1 was hit from health 50 by an attack whose hitbox is gone; its entry is 40.
C20_Witness ==
    /\ DOMAIN damagedPlayers = {"p1"}
    /\ hitFrom["p1"] = <<50>>
    /\ otherPlayers["p1"].health = 40
    /\ ~attackHitbox
    /\ now = MaxFrames * FrameDelta

\* C21: handlePlayerDeath and playerDied are called only by a hit on the local
\* player, and a hit that brings the local player to 0 resets the player, then
\* calls playerDied once, then playerHit once.  In a frame, there is such a
\* hit exactly when the hits of the frame bring the health of the local
\* player to 0; no other step calls playerDied.
C21_DiedForLocalOnly ==
    \A id \in Accounts :
        /\ id # myAccount => deaths[id] = <<>>
        /\ \A i \in DOMAIN deaths[id] : deaths[id][i] = <<"reset", "playerDied", "playerHit">>

C21_DeathStep ==
    IF now' > now /\ myAccount \in Accounts
    THEN LET melee == IF /\ myAccount \in hitPlayers'
                         /\ (myAccount \notin hitPlayers \/ attackTimes' # attackTimes)
                      THEN 1 ELSE 0
             n     == melee + Cardinality(lastStrike'.ids)
         IN  (deaths'[myAccount] # <<>>) <=> (n > 0 /\ playerHealth - n * HitDamage <= 0)
    ELSE deaths' = deaths

C21_DiedOncePerDeath == [](C21_DiedForLocalOnly) /\ [][C21_DeathStep]_vars

\* C22: whatever the setGameData and create calls of the session, the handlers
\* are registered at most once, and handleProjectileFired is called at most
\* once for a published projectileFired message.
C22_RegisteredOnce ==
    /\ subscriptions <= 1
    /\ handled <= 1
====
